---- MODULE Spec2Model ----
(***************************************************************************)
(* Model of datacp (src/example/datacp/src/main.rs): the partitioned,      *)
(* resumable copy of a ClickHouse table over HTTP followed by the cut-over *)
(* (rename source to _bak, reconcile, back-fill, rename destination).      *)
(*                                                                         *)
(* Time is counted in ticks: one tick is the resolution of the timestamp   *)
(* text "%Y-%m-%d %H:%M:%S" (one second), and the empty string a query      *)
(* returns for an empty range is NoTime.  Hour, WorkerBatch and            *)
(* CutoverBatch are the program's 1 hour, 5000 and 1000 scaled down so     *)
(* that several windows and several batches occur within the bounds.       *)
(* A transport operation (query, execute, insert) is one step whose result *)
(* is the result of its whole retry loop: Ok or Err.                       *)
(***************************************************************************)
EXTENDS Integers, Sequences, FiniteSets, Bags, TLC

\* ---------------------------------------------------------------- bounds
MaxTime == 3
MaxVal == 2
MaxSrcRows == 2
MaxDstRows == 1
MaxParallelism == 2
MaxFailures == 1
MaxAppend == 1
MaxRuns == 2
MaxCols == 3
MaxLate == 2

\* ------------------------------------------------------ program constants
\* chrono::Duration::hours(1), in ticks (scaled)
Hour == 2
\* need_insert.chunks(5000) in the segment worker (scaled)
WorkerBatch == 2
\* need_insert.chunks(1000) in the cut-over reconciliation (scaled)
CutoverBatch == 1
\* the empty string "" returned for min/max of an empty range
NoTime == -1
\* the JSON null that fills a missing column
Null == 0

Times == 0..MaxTime
Vals == 1..MaxVal
\* a row as the HTTP layer returns it: a map from column name to value
Rows == [a : Vals, t : Times]

\* col_names (the filtered source columns) and sorted_col_names
col_names == <<"t", "a">>
sorted_col_names == <<"a", "t">>

\* ------------------------------------------------------------- sequences
Range(s) == {s[i] : i \in 1..Len(s)}

RECURSIVE SeqToBag(_)
SeqToBag(s) ==
    IF s = <<>> THEN EmptyBag
    ELSE SetToBag({Head(s)}) (+) SeqToBag(Tail(s))

RECURSIVE Flatten(_)
Flatten(ss) ==
    IF ss = <<>> THEN <<>> ELSE Head(ss) \o Flatten(Tail(ss))

SeqsUpTo(S, n) == UNION {[1..k -> S] : k \in 0..n}

BagsUpTo(S, n) == {SeqToBag(s) : s \in SeqsUpTo(S, n)}

MinOf(S) == CHOOSE x \in S : \A y \in S : x <= y
MaxOf(S) == CHOOSE x \in S : \A y \in S : x >= y

\* mutant: the elements left after the last full slice are dropped
RECURSIVE ChunksExact(_, _)
ChunksExact(s, n) ==
    IF Len(s) < n THEN <<>>
    ELSE <<SubSeq(s, 1, n)>> \o ChunksExact(SubSeq(s, n + 1, Len(s)), n)

\* slice::chunks(n): consecutive slices of n elements, the last possibly
\* shorter; it panics for n = 0, which the callers test before calling
RECURSIVE Chunks(_, _)
Chunks(s, n) ==
    IF Len(s) = 0 THEN <<>>
    ELSE IF Len(s) <= n THEN <<s>>
    ELSE <<SubSeq(s, 1, n)>> \o Chunks(SubSeq(s, n + 1, Len(s)), n)

\* ------------------------------------------------------- row canonicalizer
\* mutant: the whole row is hashed
FingerprintWholeRow(row) == row

\* the normalised map built from sorted_col_names, a missing column as null;
\* SHA-256 of its serialisation is taken to be injective, so the fingerprint
\* is the normalised map itself
Fingerprint(row) ==
    [c \in Range(sorted_col_names) |->
        IF c \in DOMAIN row THEN row[c] ELSE Null]

\* dst_row_set: the fingerprints of the destination rows read
DstRowSet(dst_rows) == {Fingerprint(r) : r \in dst_rows}

\* mutant: every source row is inserted
NeedInsertAll(src_rows, dst_row_set) == src_rows

\* mutant: a row is inserted once, whatever the number of its occurrences
RECURSIVE NeedInsertOnce(_, _)
NeedInsertOnce(src_rows, dst_row_set) ==
    IF src_rows = <<>> THEN <<>>
    ELSE IF Fingerprint(Head(src_rows)) \notin dst_row_set
         THEN <<Head(src_rows)>> \o
              NeedInsertOnce(Tail(src_rows),
                             dst_row_set \cup {Fingerprint(Head(src_rows))})
         ELSE NeedInsertOnce(Tail(src_rows), dst_row_set)

\* the need_insert loop: the source rows, in order, whose fingerprint is not
\* in dst_row_set
RECURSIVE NeedInsert(_, _)
NeedInsert(src_rows, dst_row_set) ==
    IF src_rows = <<>> THEN <<>>
    ELSE LET rest == NeedInsert(Tail(src_rows), dst_row_set)
         IN  IF Fingerprint(Head(src_rows)) \notin dst_row_set
             THEN <<Head(src_rows)>> \o rest
             ELSE rest

\* ------------------------------------------------------------ the planner
\* mutant: the loop runs while t <= max
RECURSIVE SegmentLoopInclusive(_, _, _, _)
SegmentLoopInclusive(t, max, done_segments, segments) ==
    IF t <= max
    THEN SegmentLoopInclusive(t + Hour, max, done_segments,
                              IF t \notin done_segments
                              THEN Append(segments, t) ELSE segments)
    ELSE segments

\* mutant: the loop steps by more than the width of a window
RECURSIVE SegmentLoopWideStep(_, _, _, _)
SegmentLoopWideStep(t, max, done_segments, segments) ==
    IF t < max
    THEN SegmentLoopWideStep(t + Hour + 1, max, done_segments,
                             IF t \notin done_segments
                             THEN Append(segments, t) ELSE segments)
    ELSE segments

\* the `while t < max` loop of generate_hourly_segments_with_skip
RECURSIVE SegmentLoop(_, _, _, _)
SegmentLoop(t, max, done_segments, segments) ==
    IF t < max
    THEN SegmentLoop(t + Hour, max, done_segments,
                     IF t \notin done_segments
                     THEN Append(segments, t) ELSE segments)
    ELSE segments

generate_hourly_segments_with_skip(min_time, max_time, done_segments) ==
    SegmentLoop(min_time, max_time, done_segments, <<>>)

\* (segments.len() + parallelism - 1) / parallelism
ChunkSize(segments, p) == (Len(segments) + p - 1) \div p

\* ------------------------------------------------------------------ state
VARIABLES
    src,             \* rows of the source table (under srcName), in table order
    srcName,         \* "src" until the rename, then "bak"
    dst,             \* rows of the destination table: a bag
    dstName,         \* "dst" until the final rename, then "src"
    checkpointFile,  \* the keys written in the done_segments file
    rotated,         \* the done_segments file has been renamed away
    parallelism,     \* opt.parallelism
    start_time,      \* opt.start_time
    pc,              \* position of main
    max_time,        \* max_time of the base range
    cur_max_time,    \* cur_max_time of the catch-up loop
    new_max,         \* new_max of the catch-up iteration in progress
    bak_max_time,    \* max(time) read from _bak
    bak_rows,        \* rows of _bak at bak_max_time
    need_insert,     \* the reconciliation's insert list
    nbatch,          \* index of the next reconciliation batch
    cut_dst_row_set, \* dst_row_set of the reconciliation
    workers,         \* the spawned segment workers of the cycle in progress
    failures,        \* history: transport operations that failed
    clean,           \* history: no transport operation failed in this run
    appended,        \* history: rows written to the source by its writers
    run,             \* history: number of the process run
    restart_pc,      \* history: where the previous run was terminated
    dst_at_restart,  \* history: the destination when it was terminated
    planned,         \* history: keys planned in this run
    badCkpt,         \* history: keys checkpointed although an insert failed
    cutSent,         \* history: batches sent by the reconciliation
    cut_insert_failed, \* history: an insert failed after the source rename
    failed_at,       \* history: the step whose error ended the run
    cutLog,          \* history: the cut-over steps performed, in order
    src_at_rename,   \* history: the number of source rows at the rename
    plan,            \* the planner called on its own (SpecPlan)
    call,            \* a transport operation on its own (SpecRetry)
    pre,             \* the pre-flight checks of main (SpecPreflight)
    fp               \* the row canonicalizer on its own (SpecFingerprint)

dbVars == <<src, srcName, dst, dstName, checkpointFile, rotated>>
cfgVars == <<parallelism, start_time, plan, call, pre, fp>>
mainVars == <<pc, max_time, cur_max_time, new_max>>
cutVars == <<bak_max_time, bak_rows, cut_dst_row_set, need_insert, nbatch,
             cutSent, cutLog, src_at_rename>>
histVars == <<failures, clean, appended, run, restart_pc, dst_at_restart,
              planned, badCkpt, cut_insert_failed, failed_at>>
vars == <<dbVars, cfgVars, mainVars, cutVars, workers, histVars>>

\* ---------------------------------------------------------- catalog probe
\* SELECT min(t), max(t) FROM table WHERE t >= start
get_time_range_http(table, start) ==
    LET ts == {table[i].t : i \in {j \in 1..Len(table) : table[j].t >= start}}
    IN  IF ts = {} THEN <<NoTime, NoTime>> ELSE <<MinOf(ts), MaxOf(ts)>>

\* SELECT max(t) FROM table
get_max_time_http(table) ==
    IF table = <<>> THEN NoTime ELSE MaxOf({table[i].t : i \in 1..Len(table)})

InInstant(time_val, r) == r.t = time_val

\* SELECT cols FROM table WHERE t = time_val
get_rows_http(table, time_val) ==
    SelectSeq(table, LAMBDA r : InInstant(time_val, r))

\* the window of a partition key: seg <= t < seg + 1h
InWindow(seg, r) == seg <= r.t /\ r.t < seg + Hour

\* SELECT cols FROM table WHERE t >= seg AND t < seg_end
WindowRows(table, seg) == SelectSeq(table, LAMBDA r : InWindow(seg, r))

\* the destination rows of a window or an instant, as a set (only their
\* fingerprints are used)
DstWindowRows(seg) == {r \in BagToSet(dst) : InWindow(seg, r)}
DstInstantRows(time_val) == {r \in BagToSet(dst) : InInstant(time_val, r)}

\* NaiveDateTime + 1ns, then format("%Y-%m-%d %H:%M:%S"): the text has no
\* sub-second digits, so the nanosecond is dropped
FormatSeconds(dt) == dt.sec
PlusNanos(t, n) == [sec |-> t + ((n) \div 1000000000), nano |-> n % 1000000000]

\* ------------------------------------------------------- checkpoint file
load_done_segments == checkpointFile

\* mutant: nothing is written
SaveNothing(file, seg) == file

save_done_segment(file, seg) == file \cup {seg}

\* --------------------------------------------------------------- transport
\* the outcomes of one transport operation on a table name: Err when the
\* name does not exist, otherwise Ok or (within the budget) Err
SrcExists(name) == name = srcName
Outcomes(exists) ==
    IF ~exists THEN {FALSE}
    ELSE IF failures < MaxFailures THEN BOOLEAN ELSE {TRUE}

Failed(ok) ==
    /\ failures' = IF ok THEN failures ELSE failures + 1
    /\ clean' = (clean /\ ok)

\* an error that main returns: the step it was at is kept for the record
Returns(ok) == failed_at' = IF ok THEN failed_at ELSE pc

\* ------------------------------------------------------------------- Init
NoRows == <<>>

\* the planner is not called on its own in a run
NoPlan == [at |-> "none"]
\* nor is a transport operation, whose retry loop is one step of a run
NoCall == [at |-> "none"]
\* the pre-flight checks have passed when main asks for the time range
NoPre == [at |-> "none"]
\* the canonicalizer is applied within the steps of the workers
NoFp == [at |-> "none"]

\* the state of main before its first request for rows, the tables and the
\* position of main apart
InitState ==
    /\ srcName = "src"
    /\ dstName = "dst"
    /\ checkpointFile = {}
    /\ rotated = FALSE
    /\ start_time = 0
    /\ max_time = NoTime
    /\ cur_max_time = NoTime
    /\ new_max = NoTime
    /\ bak_max_time = NoTime
    /\ bak_rows = NoRows
    /\ need_insert = NoRows
    /\ nbatch = 1
    /\ cut_dst_row_set = {}
    /\ workers = <<>>
    /\ failures = 0
    /\ clean = TRUE
    /\ appended = 0
    /\ run = 1
    /\ restart_pc = "none"
    /\ dst_at_restart = EmptyBag
    /\ planned = {}
    /\ badCkpt = {}
    /\ cutSent = <<>>
    /\ cut_insert_failed = FALSE
    /\ failed_at = "none"
    /\ cutLog = <<>>
    /\ src_at_rename = 0

\* main has passed its pre-flight checks and asks for the time range
InitMain ==
    /\ InitState
    /\ pc = "base_range"

Init ==
    /\ InitMain
    /\ src \in SeqsUpTo(Rows, MaxSrcRows)
    /\ dst \in BagsUpTo(Rows, MaxDstRows)
    /\ parallelism \in 1..MaxParallelism
    /\ plan = NoPlan
    /\ call = NoCall
    /\ pre = NoPre
    /\ fp = NoFp

\* ------------------------------------------------------- spawning a cycle
\* the state of migrate_segment_worker_http(chunk, ..., src_table, ...)
\* before its first request
NewWorker(chunk, src_table) ==
    [segments |-> chunk, i |-> 1, at |-> "src_read", src_table |-> src_table,
     src_rows |-> NoRows, dst_row_set |-> {}, need_insert |-> NoRows, b |-> 1,
     attempted |-> <<>>, batch_failed |-> FALSE, sent |-> <<>>,
     last |-> "none"]

\* segments.chunks(size) and one tokio::spawn per chunk
SpawnWorkers(segments, src_table) ==
    LET segment_chunks == Chunks(segments, ChunkSize(segments, parallelism))
    IN  [c \in 1..Len(segment_chunks) |-> NewWorker(segment_chunks[c], src_table)]

\* plan, shard and launch; chunks(0) panics when no segment is left
LaunchCycle(min, max, done_segments, src_table, joinPc) ==
    LET segments == generate_hourly_segments_with_skip(min, max, done_segments)
    IN  /\ planned' = planned \cup Range(segments)
        /\ IF ChunkSize(segments, parallelism) = 0
           THEN /\ pc' = "panicked"
                /\ workers' = <<>>
           ELSE /\ pc' = joinPc
                /\ workers' = SpawnWorkers(segments, src_table)

WorkerFinished(w) == w.i > Len(w.segments)

\* mutant: main goes on without waiting for the workers
JoinWithoutWaiting == TRUE

\* mutant: join_all never returns
JoinNever == FALSE

\* join_all(handles).await returns
AllJoined == \A c \in 1..Len(workers) : WorkerFinished(workers[c])

\* -------------------------------------------------------- the base cycle
\* mutant: an empty min or max is not looked at
NoDataNever(min_time, max_time_) == FALSE

\* min_time.is_empty() || max_time.is_empty()
NoData(min_time, max_time_) == min_time = NoTime \/ max_time_ = NoTime

\* main, steps 4 to 6: time range, checkpoint set, plan, launch
BaseRange(ok) ==
    /\ pc = "base_range"
    /\ ok \in Outcomes(SrcExists("src"))
    /\ Failed(ok)
    /\ Returns(ok)
    /\ LET tr == get_time_range_http(src, start_time)
       IN  IF ~ok
           THEN /\ pc' = "failed"
                /\ UNCHANGED <<max_time, workers, planned>>
           ELSE IF NoData(tr[1], tr[2])
           THEN /\ pc' = "done_nodata"
                /\ UNCHANGED <<max_time, workers, planned>>
           ELSE /\ max_time' = tr[2]
                /\ LaunchCycle(tr[1], tr[2], load_done_segments, "src",
                               "base_join")
    /\ UNCHANGED <<dbVars, cfgVars, cur_max_time, new_max, cutVars,
                   appended, run, restart_pc, dst_at_restart, badCkpt,
                   cut_insert_failed>>

\* join_all(handles) of the base cycle, then cur_max_time = max_time
BaseJoin ==
    /\ pc = "base_join"
    /\ AllJoined
    /\ pc' = "catchup_range"
    /\ cur_max_time' = max_time
    /\ workers' = <<>>
    /\ UNCHANGED <<dbVars, cfgVars, max_time, new_max, cutVars, histVars>>

\* ------------------------------------------------------ the catch-up loop
\* mutant: the loop goes on while new_max is not below cur_max_time
NoNewDataStrict(new_min, new_max_, cur) == new_min = NoTime \/ new_max_ < cur

\* new_min.is_empty() || new_max <= cur_max_time
NoNewData(new_min, new_max_, cur) == new_min = NoTime \/ new_max_ <= cur

CatchupRange(ok) ==
    /\ pc = "catchup_range"
    /\ ok \in Outcomes(SrcExists("src"))
    /\ Failed(ok)
    /\ Returns(ok)
    /\ LET tr == get_time_range_http(src, cur_max_time)
       IN  IF ~ok
           THEN /\ pc' = "failed"
                /\ UNCHANGED <<new_max, workers, planned>>
           ELSE IF NoNewData(tr[1], tr[2], cur_max_time)
           THEN /\ pc' = "rename_src"
                /\ UNCHANGED <<new_max, workers, planned>>
           ELSE /\ new_max' = tr[2]
                /\ LaunchCycle(tr[1], tr[2], load_done_segments, "src",
                               "catchup_join")
    /\ UNCHANGED <<dbVars, cfgVars, max_time, cur_max_time, cutVars,
                   appended, run, restart_pc, dst_at_restart, badCkpt,
                   cut_insert_failed>>

CatchupJoin ==
    /\ pc = "catchup_join"
    /\ AllJoined
    /\ pc' = "catchup_range"
    /\ cur_max_time' = new_max
    /\ workers' = <<>>
    /\ UNCHANGED <<dbVars, cfgVars, max_time, new_max, cutVars, histVars>>

\* ----------------------------------------------------- the segment worker
\* mutant: a failed read ends the worker
AbortChunk(w) == Len(w.segments) + 1

\* what the worker does after a failed read of key segments[i]: `continue`
NextAfterError(w) == w.i + 1

\* what the worker does after the last statement of the loop body
NextAfterKey(w) == w.i + 1

Seg(w) == w.segments[w.i]

\* the source read of the key (lines 117-125)
WorkerSrcRead(c, ok) ==
    LET w == workers[c]
    IN  /\ pc \in {"base_join", "catchup_join", "bak_join"}
        /\ ~WorkerFinished(w)
        /\ w.at = "src_read"
        /\ ok \in Outcomes(SrcExists(w.src_table))
        /\ Failed(ok)
        /\ workers' = [workers EXCEPT ![c] =
              IF ok
              THEN [w EXCEPT !.src_rows = WindowRows(src, Seg(w)),
                             !.at = "dst_read",
                             !.attempted = Append(@, Seg(w)),
                             !.batch_failed = FALSE,
                             !.sent = <<>>,
                             !.last = "reading"]
              ELSE [w EXCEPT !.i = NextAfterError(w),
                             !.attempted = Append(@, Seg(w)),
                             !.batch_failed = FALSE,
                             !.sent = <<>>,
                             !.last = "src_failed"]]
        /\ UNCHANGED <<dbVars, cfgVars, mainVars, cutVars, appended, run,
                       restart_pc, dst_at_restart, planned, badCkpt,
                       cut_insert_failed, failed_at>>

\* the destination read, the diff and, for an empty insert list, the
\* checkpoint (lines 126-159, 170-173)
WorkerDstRead(c, ok) ==
    LET w == workers[c]
        dst_row_set == DstRowSet(DstWindowRows(Seg(w)))
        need == NeedInsert(w.src_rows, dst_row_set)
    IN  /\ pc \in {"base_join", "catchup_join", "bak_join"}
        /\ ~WorkerFinished(w)
        /\ w.at = "dst_read"
        /\ ok \in Outcomes(dstName = "dst")
        /\ Failed(ok)
        /\ workers' = [workers EXCEPT ![c] =
              IF ~ok
              THEN [w EXCEPT !.i = NextAfterError(w), !.at = "src_read",
                             !.last = "dst_failed"]
              ELSE IF need = <<>>
              THEN [w EXCEPT !.dst_row_set = dst_row_set,
                             !.need_insert = need,
                             !.i = NextAfterKey(w), !.at = "src_read",
                             !.last = "done"]
              ELSE [w EXCEPT !.dst_row_set = dst_row_set,
                             !.need_insert = need,
                             !.at = "insert", !.b = 1]]
        /\ checkpointFile' =
              IF ok /\ need = <<>>
              THEN save_done_segment(checkpointFile, Seg(w))
              ELSE checkpointFile
        /\ UNCHANGED <<src, srcName, dst, dstName, rotated, cfgVars, mainVars,
                       cutVars, appended, run, restart_pc, dst_at_restart,
                       planned, badCkpt, cut_insert_failed, failed_at>>

\* one batch insert; after the last batch of the key, the checkpoint
\* (lines 160-173): a failed batch is logged and the loop over the batches
\* continues
WorkerInsert(c, ok) ==
    LET w == workers[c]
        batches == Chunks(w.need_insert, WorkerBatch)
        batch == batches[w.b]
        isLast == w.b = Len(batches)
        anyFailed == w.batch_failed \/ ~ok
    IN  /\ pc \in {"base_join", "catchup_join", "bak_join"}
        /\ ~WorkerFinished(w)
        /\ w.at = "insert"
        /\ ok \in Outcomes(dstName = "dst")
        /\ Failed(ok)
        /\ dst' = IF ok THEN dst (+) SeqToBag(batch) ELSE dst
        /\ workers' = [workers EXCEPT ![c] =
              IF isLast
              THEN [w EXCEPT !.sent = Append(@, batch),
                             !.batch_failed = anyFailed,
                             !.i = NextAfterKey(w), !.at = "src_read",
                             !.last = "done"]
              ELSE [w EXCEPT !.sent = Append(@, batch),
                             !.batch_failed = anyFailed,
                             !.b = w.b + 1]]
        /\ checkpointFile' =
              IF isLast THEN save_done_segment(checkpointFile, Seg(w))
              ELSE checkpointFile
        /\ badCkpt' =
              IF isLast /\ anyFailed THEN badCkpt \cup {Seg(w)} ELSE badCkpt
        /\ cut_insert_failed' = (cut_insert_failed \/ (~ok /\ srcName = "bak"))
        /\ UNCHANGED <<src, srcName, dstName, rotated, cfgVars, mainVars,
                       cutVars, appended, run, restart_pc, dst_at_restart,
                       planned, failed_at>>

\* ------------------------------------------------------------ the cut-over
\* the cut-over steps that succeeded, for the record
Logs(ok, steps) == cutLog' = IF ok THEN cutLog \o steps ELSE cutLog

\* what main does when the rename of the source fails: it returns the error
AfterRenameSrcError == "failed"

\* 8.1 RENAME TABLE src TO src_bak
RenameSrc(ok) ==
    /\ pc = "rename_src"
    /\ ok \in Outcomes(SrcExists("src"))
    /\ Failed(ok)
    /\ Returns(ok)
    /\ srcName' = IF ok THEN "bak" ELSE srcName
    /\ pc' = IF ok THEN "bak_max" ELSE AfterRenameSrcError
    /\ Logs(ok, <<"rename_src">>)
    /\ src_at_rename' = IF ok THEN Len(src) ELSE src_at_rename
    /\ UNCHANGED <<src, dst, dstName, checkpointFile, rotated, cfgVars,
                   max_time, cur_max_time, new_max, bak_max_time, bak_rows,
                   cut_dst_row_set, need_insert, nbatch, cutSent, workers,
                   appended, run, restart_pc, dst_at_restart, planned,
                   badCkpt, cut_insert_failed>>

\* 8.2 max(time) of _bak
BakMax(ok) ==
    /\ pc = "bak_max"
    /\ ok \in Outcomes(SrcExists("bak"))
    /\ Failed(ok)
    /\ Returns(ok)
    /\ bak_max_time' = IF ok THEN get_max_time_http(src) ELSE bak_max_time
    /\ pc' = IF ok THEN "bak_rows" ELSE "failed"
    /\ Logs(ok, <<"bak_max">>)
    /\ UNCHANGED src_at_rename
    /\ UNCHANGED <<dbVars, cfgVars, max_time, cur_max_time, new_max,
                   bak_rows, cut_dst_row_set, need_insert, nbatch, cutSent,
                   workers, appended, run, restart_pc, dst_at_restart,
                   planned, badCkpt, cut_insert_failed>>

\* 8.3 the rows of _bak at bak_max_time
BakRows(ok) ==
    /\ pc = "bak_rows"
    /\ ok \in Outcomes(SrcExists("bak"))
    /\ Failed(ok)
    /\ Returns(ok)
    /\ bak_rows' = IF ok THEN get_rows_http(src, bak_max_time) ELSE bak_rows
    /\ pc' = IF ok THEN "bak_dst_rows" ELSE "failed"
    /\ Logs(ok, <<"bak_rows">>)
    /\ UNCHANGED src_at_rename
    /\ UNCHANGED <<dbVars, cfgVars, max_time, cur_max_time, new_max,
                   bak_max_time, cut_dst_row_set, need_insert, nbatch,
                   cutSent, workers, appended, run, restart_pc,
                   dst_at_restart, planned, badCkpt, cut_insert_failed>>

\* 8.3 the destination rows at bak_max_time and the diff (lines 659-686)
BakDstRows(ok) ==
    LET dst_row_set == DstRowSet(DstInstantRows(bak_max_time))
        need == NeedInsert(bak_rows, dst_row_set)
    IN  /\ pc = "bak_dst_rows"
        /\ ok \in Outcomes(dstName = "dst")
        /\ Failed(ok)
        /\ Returns(ok)
        /\ Logs(ok, <<"bak_dst_rows">>)
        /\ cut_dst_row_set' = IF ok THEN dst_row_set ELSE cut_dst_row_set
        /\ need_insert' = IF ok THEN need ELSE need_insert
        /\ nbatch' = 1
        /\ pc' = IF ~ok THEN "failed"
                 ELSE IF need = <<>> THEN "bak_range" ELSE "bak_insert"
        /\ UNCHANGED src_at_rename
        /\ UNCHANGED <<dbVars, cfgVars, max_time, cur_max_time, new_max,
                       bak_max_time, bak_rows, cutSent, workers, appended,
                       run, restart_pc, dst_at_restart, planned, badCkpt,
                       cut_insert_failed>>

\* what main does when a reconciliation insert fails: `?` returns the error
AfterCutoverInsertError == "failed"

\* 8.3 one reconciliation batch (lines 687-691)
BakInsert(ok) ==
    LET batches == Chunks(need_insert, CutoverBatch)
        batch == batches[nbatch]
    IN  /\ pc = "bak_insert"
        /\ ok \in Outcomes(dstName = "dst")
        /\ Failed(ok)
        /\ Returns(ok)
        /\ Logs(ok, <<"bak_insert">>)
        /\ dst' = IF ok THEN dst (+) SeqToBag(batch) ELSE dst
        /\ cutSent' = Append(cutSent, batch)
        /\ cut_insert_failed' = (cut_insert_failed \/ ~ok)
        /\ nbatch' = IF ok THEN nbatch + 1 ELSE nbatch
        /\ pc' = IF ~ok THEN AfterCutoverInsertError
                 ELSE IF nbatch = Len(batches) THEN "bak_range"
                 ELSE "bak_insert"
        /\ UNCHANGED src_at_rename
        /\ UNCHANGED <<src, srcName, dstName, checkpointFile, rotated,
                       cfgVars, max_time, cur_max_time, new_max,
                       bak_max_time, bak_rows, cut_dst_row_set, need_insert,
                       workers, appended, run, restart_pc, dst_at_restart,
                       planned, badCkpt>>

\* bak_max_time + 1ns, formatted
bak_min_time_str == FormatSeconds(PlusNanos(bak_max_time, 1))

\* 8.4 the range left in _bak and the partitioned back-fill (lines 694-718)
BakRange(ok) ==
    /\ pc = "bak_range"
    /\ ok \in Outcomes(SrcExists("bak"))
    /\ Failed(ok)
    /\ Returns(ok)
    /\ LET tr == get_time_range_http(src, bak_min_time_str)
       IN  IF ~ok
           THEN /\ pc' = "failed"
                /\ UNCHANGED <<workers, planned, cutLog>>
           ELSE IF tr[1] # NoTime /\ tr[2] > bak_max_time
           THEN /\ LaunchCycle(tr[1], tr[2], {}, "bak", "bak_join")
                /\ Logs(TRUE, <<"bak_range", "backfill">>)
           ELSE /\ pc' = "rename_dst"
                /\ Logs(TRUE, <<"bak_range">>)
                /\ UNCHANGED <<workers, planned>>
    /\ UNCHANGED src_at_rename
    /\ UNCHANGED <<dbVars, cfgVars, max_time, cur_max_time, new_max,
                   bak_max_time, bak_rows, cut_dst_row_set, need_insert,
                   nbatch, cutSent, appended, run, restart_pc,
                   dst_at_restart, badCkpt, cut_insert_failed>>

BakJoin ==
    /\ pc = "bak_join"
    /\ AllJoined
    /\ pc' = "rename_dst"
    /\ workers' = <<>>
    /\ UNCHANGED <<dbVars, cfgVars, max_time, cur_max_time, new_max, cutVars,
                   histVars>>

\* 8.5 RENAME TABLE dst TO src, then 8.6 the done_segments file is renamed
\* mutant: the error of the destination rename is ignored
IgnoreRenameDstError == "done"

\* what main does when the rename of the destination fails: it returns the
\* error
AfterRenameDstError == "failed"

RenameDst(ok) ==
    /\ pc = "rename_dst"
    /\ ok \in Outcomes(dstName = "dst")
    /\ Failed(ok)
    /\ Returns(ok)
    /\ dstName' = IF ok THEN "src" ELSE dstName
    /\ pc' = IF ok THEN "done" ELSE AfterRenameDstError
    /\ rotated' = IF pc' = "done" /\ checkpointFile # {} THEN TRUE
                  ELSE rotated
    /\ Logs(TRUE,
            (IF ok THEN <<"rename_dst">> ELSE <<>>) \o
            (IF rotated' # rotated THEN <<"rotate">> ELSE <<>>))
    /\ UNCHANGED src_at_rename
    /\ UNCHANGED <<src, srcName, dst, checkpointFile, cfgVars, max_time,
                   cur_max_time, new_max, bak_max_time, bak_rows,
                   cut_dst_row_set, need_insert, nbatch, cutSent, workers,
                   appended, run, restart_pc, dst_at_restart, planned,
                   badCkpt, cut_insert_failed>>

\* --------------------------------------------------------- the environment
Terminal == {"done", "done_nodata", "failed", "panicked"}

\* a writer of the source appends a row stamped with the current time, which
\* is not before the rows already there; after the rename a write already
\* under way lands in _bak; the source is not written once the process has
\* been started again
AppendSrc(row) ==
    /\ appended < MaxAppend
    /\ run = 1
    /\ pc \notin Terminal
    /\ row.t >= get_max_time_http(src)
    /\ src' = Append(src, row)
    /\ appended' = appended + 1
    /\ UNCHANGED <<srcName, dst, dstName, checkpointFile, rotated, cfgVars,
                   mainVars, cutVars, workers, failures, clean, run,
                   restart_pc, dst_at_restart, planned, badCkpt,
                   cut_insert_failed, failed_at>>

\* the process is terminated (or has ended) before the source rename and is
\* started again, with the done_segments file kept or removed
Restart(keep) ==
    /\ run < MaxRuns
    /\ srcName = "src"
    /\ pc # "base_range"
    /\ run' = run + 1
    /\ restart_pc' = pc
    /\ dst_at_restart' = dst
    /\ checkpointFile' = IF keep THEN checkpointFile ELSE {}
    /\ pc' = "base_range"
    /\ max_time' = NoTime
    /\ cur_max_time' = NoTime
    /\ new_max' = NoTime
    /\ workers' = <<>>
    /\ clean' = TRUE
    /\ planned' = {}
    /\ failed_at' = "none"
    /\ UNCHANGED <<src, srcName, dst, dstName, rotated, cfgVars, cutVars,
                   failures, appended, badCkpt, cut_insert_failed>>

\* the steps of the program
Steps ==
    \/ \E ok \in BOOLEAN : BaseRange(ok)
    \/ BaseJoin
    \/ \E ok \in BOOLEAN : CatchupRange(ok)
    \/ CatchupJoin
    \/ \E c \in 1..Len(workers), ok \in BOOLEAN : WorkerSrcRead(c, ok)
    \/ \E c \in 1..Len(workers), ok \in BOOLEAN : WorkerDstRead(c, ok)
    \/ \E c \in 1..Len(workers), ok \in BOOLEAN : WorkerInsert(c, ok)
    \/ \E ok \in BOOLEAN : RenameSrc(ok)
    \/ \E ok \in BOOLEAN : BakMax(ok)
    \/ \E ok \in BOOLEAN : BakRows(ok)
    \/ \E ok \in BOOLEAN : BakDstRows(ok)
    \/ \E ok \in BOOLEAN : BakInsert(ok)
    \/ \E ok \in BOOLEAN : BakRange(ok)
    \/ BakJoin
    \/ \E ok \in BOOLEAN : RenameDst(ok)

\* one run of the program beside the writers of the source
Next ==
    \/ Steps
    \/ \E row \in Rows : AppendSrc(row)

Spec == Init /\ [][Next]_vars

\* runs of the program that may be terminated and started again
NextRestart ==
    \/ Steps
    \/ \E row \in Rows : AppendSrc(row)
    \/ \E keep \in BOOLEAN : Restart(keep)

SpecRestart == Init /\ [][NextRestart]_vars

\* a writer of the source as in AppendSrc, with room for two writes in a run,
\* so that a row can land between cur_max_time and the last row of _bak
AppendLate(row) ==
    /\ appended < MaxLate
    /\ run = 1
    /\ pc \notin Terminal
    /\ row.t >= get_max_time_http(src)
    /\ src' = Append(src, row)
    /\ appended' = appended + 1
    /\ UNCHANGED <<srcName, dst, dstName, checkpointFile, rotated, cfgVars,
                   mainVars, cutVars, workers, failures, clean, run,
                   restart_pc, dst_at_restart, planned, badCkpt,
                   cut_insert_failed, failed_at>>

\* a run into an empty destination
InitLate ==
    /\ InitMain
    /\ src \in SeqsUpTo(Rows, MaxSrcRows)
    /\ dst = EmptyBag
    /\ parallelism \in 1..MaxParallelism
    /\ plan = NoPlan
    /\ call = NoCall
    /\ pre = NoPre
    /\ fp = NoFp

NextLate ==
    \/ Steps
    \/ \E row \in Rows : AppendLate(row)

\* beside a source that is written twice
SpecLate == InitLate /\ [][NextLate]_vars

\* a run whose tasks are scheduled: the tokio runtime polls every task that can
\* go on, worker or main, and every HTTP attempt returns within the client's
\* timeout, so a step of the program that can be taken is taken; the writers
\* of the source are under no such obligation
Fairness == WF_vars(Steps)

\* a scheduled run into an empty destination
SpecFair == InitLate /\ [][Next]_vars /\ Fairness

\* ------------------------------------------------- the planner on its own
\* generate_hourly_segments_with_skip and the sharding of main applied to
\* inputs drawn from the bounded sets
PlanInputs ==
    [at : {"in"}, min : Times, max : 0..(MaxTime + 2 * Hour),
     done : SUBSET Times, p : 1..(MaxParallelism + 1)]

InitPlan ==
    /\ InitMain
    /\ src = <<>>
    /\ dst = EmptyBag
    /\ plan \in PlanInputs
    /\ parallelism = plan.p
    /\ call = NoCall
    /\ pre = NoPre
    /\ fp = NoFp

PlanCall ==
    /\ plan.at = "in"
    /\ plan' =
          LET segments ==
                  generate_hourly_segments_with_skip(plan.min, plan.max,
                                                     plan.done)
              size == ChunkSize(segments, plan.p)
          IN  [at |-> "out", min |-> plan.min, max |-> plan.max,
               done |-> plan.done, p |-> plan.p, segments |-> segments,
               panicked |-> (size = 0),
               chunks |-> IF size = 0 THEN <<>> ELSE Chunks(segments, size)]
    /\ workers' =
          LET segments ==
                  generate_hourly_segments_with_skip(plan.min, plan.max,
                                                     plan.done)
          IN  IF ChunkSize(segments, parallelism) = 0 THEN <<>>
              ELSE SpawnWorkers(segments, "src")
    /\ UNCHANGED <<dbVars, parallelism, start_time, call, pre, fp, mainVars,
                   cutVars, histVars>>

NextPlan == PlanCall

SpecPlan == InitPlan /\ [][NextPlan]_vars

\* ------------------------------------------- a transport operation on its own
\* ch_query_rows(_with_client), ch_execute and insert_rows_http(_with_client)
\* share one loop: `for _ in 0..3`
Attempts == 3

Ops == {"query_rows", "execute", "insert"}

Statuses == {200, 404, 500}

\* status.is_success()
IsSuccess(status) == 200 <= status /\ status <= 299

\* how the body of a response ends: read in full, read in full but with a
\* line that is not a JSON object (only query_rows parses it), or the read of
\* the body fails
Bodies(op) == IF op = "query_rows" THEN {"ok", "bad_json", "err"}
              ELSE {"ok", "err"}

\* what one HTTP attempt can meet: send() fails, or a response arrives
AttemptOutcomes(op) ==
    {[send |-> "err", status |-> 0, body |-> "none"]} \cup
    [send : {"ok"}, status : Statuses, body : Bodies(op)]

RetryInputs ==
    [at : {"running"}, op : Ops, attempts : {<<>>}, last_err : {<<"unknown">>},
     result : {"none"}, err : {<<>>}]

InitRetry ==
    /\ InitMain
    /\ src = <<>>
    /\ dst = EmptyBag
    /\ parallelism = 1
    /\ plan = NoPlan
    /\ call \in RetryInputs
    /\ pre = NoPre
    /\ fp = NoFp

\* the function returns
ReturnOk(c) == [c EXCEPT !.at = "returned", !.result = "ok"]
ReturnErr(c, e) == [c EXCEPT !.at = "returned", !.result = "err", !.err = e]

\* the attempt failed in a way the loop retries: last_err is set and, after
\* the sleep, the loop goes on; when it was the last round the function
\* returns Err(last_err)
Retry(c, e) ==
    IF Len(c.attempts) = Attempts
    THEN ReturnErr([c EXCEPT !.last_err = e], e)
    ELSE [c EXCEPT !.last_err = e]

\* one round of the loop
HttpAttempt(o) ==
    /\ call.at = "running"
    /\ Len(call.attempts) < Attempts
    /\ o \in AttemptOutcomes(call.op)
    /\ LET c == [call EXCEPT !.attempts = Append(@, o)]
           n == Len(c.attempts)
       IN  call' =
              IF o.send = "err" THEN Retry(c, <<"connect", n>>)
              ELSE IF o.body = "err" THEN ReturnErr(c, <<"body", n>>)
              ELSE IF ~IsSuccess(o.status)
                   THEN Retry(c, <<"status", n, o.status>>)
              ELSE IF c.op = "query_rows" /\ o.body = "bad_json"
                   THEN ReturnErr(c, <<"json", n>>)
              ELSE ReturnOk(c)
    /\ UNCHANGED <<dbVars, parallelism, start_time, plan, pre, fp, mainVars,
                   cutVars, workers, histVars>>

NextRetry == \E o \in AttemptOutcomes(call.op) : HttpAttempt(o)

SpecRetry == InitRetry /\ [][NextRetry]_vars

\* the column names of the tables: those of the rows and one more
ColNames == {"a", "t", "x"}

\* ------------------------------------------- the canonicalizer on its own
\* a line of JSONEachRow: the pairs of an object in the order of the text,
\* no key twice, a value or null
JsonLines ==
    {line \in SeqsUpTo(ColNames \X (0..MaxVal), MaxCols) :
        \A i, j \in 1..Len(line) : i # j => line[i][1] # line[j][1]}

\* serde_json::from_str into HashMap<String, Value>: the map of the pairs
FromStr(line) ==
    [k \in {line[i][1] : i \in 1..Len(line)} |->
        (CHOOSE pair \in Range(line) : pair[1] = k)[2]]

FingerprintInputs == [at : {"in"}, src_line : JsonLines, dst_line : JsonLines]

InitFingerprint ==
    /\ InitMain
    /\ src = <<>>
    /\ dst = EmptyBag
    /\ parallelism = 1
    /\ plan = NoPlan
    /\ call = NoCall
    /\ pre = NoPre
    /\ fp \in FingerprintInputs

\* the diff of the worker on one source row and one destination row
FingerprintCall ==
    /\ fp.at = "in"
    /\ fp' =
          LET src_rows == <<FromStr(fp.src_line)>>
              dst_rows == {FromStr(fp.dst_line)}
              dst_row_set == DstRowSet(dst_rows)
          IN  [at |-> "out", src_line |-> fp.src_line,
               dst_line |-> fp.dst_line,
               key |-> Fingerprint(src_rows[1]),
               dst_row_set |-> dst_row_set,
               need_insert |-> NeedInsert(src_rows, dst_row_set)]
    /\ UNCHANGED <<dbVars, parallelism, start_time, plan, call, pre, mainVars,
                   cutVars, workers, histVars>>

NextFingerprint == FingerprintCall

SpecFingerprint == InitFingerprint /\ [][NextFingerprint]_vars

\* ------------------------------------------------- the pre-flight of main
\* the column lists DESCRIBE TABLE can return: no name twice
ColumnLists ==
    {cols \in SeqsUpTo(ColNames, MaxCols) :
        \A i, j \in 1..Len(cols) : i # j => cols[i] # cols[j]}

is_ignored_field(name, ignore_fields) == name \in ignore_fields

\* cols.iter().filter(|c| !is_ignored_field(c, ignore_fields))
FilterIgnored(cols, ignore_fields) ==
    SelectSeq(cols, LAMBDA c : ~is_ignored_field(c, ignore_fields))

\* for (s, d) in src_cols.iter().zip(dst_cols.iter()): the first pair of
\* different names is an error
RECURSIVE ZipCompare(_, _)
ZipCompare(src_cols, dst_cols) ==
    IF src_cols = <<>> \/ dst_cols = <<>> THEN "ok"
    ELSE IF Head(src_cols) # Head(dst_cols) THEN "columns_name"
    ELSE ZipCompare(Tail(src_cols), Tail(dst_cols))

\* mutant: the two lists are compared as sets of names
CompareAsSets(all_src_cols, all_dst_cols, ignore_fields) ==
    IF Range(FilterIgnored(all_src_cols, ignore_fields)) =
       Range(FilterIgnored(all_dst_cols, ignore_fields))
    THEN "ok" ELSE "columns_name"

\* compare_table_columns_http once both column lists are read
compare_table_columns_http(all_src_cols, all_dst_cols, ignore_fields) ==
    LET src_cols == FilterIgnored(all_src_cols, ignore_fields)
        dst_cols == FilterIgnored(all_dst_cols, ignore_fields)
    IN  IF Len(src_cols) # Len(dst_cols) THEN "columns_len"
        ELSE ZipCompare(src_cols, dst_cols)

\* mutant: the time field is not looked up
TimeFieldUnchecked(cols, time_field) == TRUE

\* col_names.contains(&opt.time_field)
TimeFieldExists(cols, time_field) == time_field \in Range(cols)

PreflightInputs ==
    [at : {"in"}, src_table_cols : ColumnLists, dst_table_cols : ColumnLists,
     ignore_field : SUBSET ColNames, time_field : ColNames,
     compared : {"none"}, col_names : {<<>>}, error : {"none"}]

InitPreflight ==
    /\ InitState
    /\ pc = "auth_test"
    /\ src = <<>>
    /\ dst = EmptyBag
    /\ parallelism = 1
    /\ plan = NoPlan
    /\ call = NoCall
    /\ pre \in PreflightInputs
    /\ fp = NoFp

\* a pre-flight step changes the position of main, the record of the
\* pre-flight and the count of failed requests
PreflightFrame ==
    UNCHANGED <<dbVars, parallelism, start_time, plan, call, fp, max_time,
                cur_max_time, new_max, cutVars, workers, appended, run,
                restart_pc, dst_at_restart, planned, badCkpt,
                cut_insert_failed>>

\* test_reqwest_clickhouse_auth: one request, no retry
AuthTest(ok) ==
    /\ pc = "auth_test"
    /\ ok \in Outcomes(TRUE)
    /\ Failed(ok)
    /\ Returns(ok)
    /\ pc' = IF ok THEN "describe_src" ELSE "failed"
    /\ pre' = IF ok THEN pre ELSE [pre EXCEPT !.error = "auth"]
    /\ PreflightFrame

\* compare_table_columns_http: DESCRIBE TABLE src
DescribeSrc(ok) ==
    /\ pc = "describe_src"
    /\ ok \in Outcomes(TRUE)
    /\ Failed(ok)
    /\ Returns(ok)
    /\ pc' = IF ok THEN "describe_dst" ELSE "failed"
    /\ pre' = IF ok THEN pre ELSE [pre EXCEPT !.error = "describe_src"]
    /\ PreflightFrame

\* compare_table_columns_http: DESCRIBE TABLE dst, then the comparison
DescribeDst(ok) ==
    LET compared == compare_table_columns_http(pre.src_table_cols,
                                               pre.dst_table_cols,
                                               pre.ignore_field)
    IN  /\ pc = "describe_dst"
        /\ ok \in Outcomes(TRUE)
        /\ Failed(ok)
        /\ failed_at' = IF ok /\ compared = "ok" THEN failed_at ELSE pc
        /\ pc' = IF ok /\ compared = "ok" THEN "col_names" ELSE "failed"
        /\ pre' = IF ~ok THEN [pre EXCEPT !.error = "describe_dst"]
                  ELSE [pre EXCEPT !.compared = compared,
                                   !.error = IF compared = "ok" THEN "none"
                                             ELSE compared]
        /\ PreflightFrame

\* main, steps 2 and 3: the source columns once more, filtered, and the
\* time field looked up among them
ColumnNames(ok) ==
    LET cols == FilterIgnored(pre.src_table_cols, pre.ignore_field)
        found == TimeFieldExists(cols, pre.time_field)
    IN  /\ pc = "col_names"
        /\ ok \in Outcomes(TRUE)
        /\ Failed(ok)
        /\ failed_at' = IF ok /\ found THEN failed_at ELSE pc
        /\ pc' = IF ok /\ found THEN "base_range" ELSE "failed"
        /\ pre' = IF ~ok THEN [pre EXCEPT !.error = "describe_src"]
                  ELSE [pre EXCEPT !.col_names = cols,
                                   !.error = IF found THEN "none"
                                             ELSE "time_field"]
        /\ PreflightFrame

NextPreflight ==
    \/ \E ok \in BOOLEAN : AuthTest(ok)
    \/ \E ok \in BOOLEAN : DescribeSrc(ok)
    \/ \E ok \in BOOLEAN : DescribeDst(ok)
    \/ \E ok \in BOOLEAN : ColumnNames(ok)

SpecPreflight == InitPreflight /\ [][NextPreflight]_vars

\* ------------------------------------------------------------------ claims
\* a source row has a row with the same fingerprint in the destination
InDestination(row) ==
    \E r \in BagToSet(dst) : Fingerprint(r) = Fingerprint(row)

\* every source row not before the start bound is in the destination
DestinationIsSuperset ==
    \A i \in 1..Len(src) : src[i].t >= start_time => InDestination(src[i])

\* C1: a partition key is in the checkpoint file only if every batch insert
\* of its non-matching rows was accepted by the destination; a key one of
\* whose batch inserts failed is never appended to the checkpoint file.
C1_CheckpointSoundness ==
    /\ \A k \in checkpointFile : k \notin badCkpt
    /\ \A c \in 1..Len(workers) :
          LET w == workers[c]
          IN  (w.at = "src_read" /\ w.last = "done"
                  /\ w.segments[w.i - 1] \in checkpointFile) =>
                 \A j \in 1..Len(w.src_rows) : InDestination(w.src_rows[j])

\* C2: with a source that does not change, an empty checkpoint file and no
\* failed HTTP call, the run does not abort before the final destination
\* rename, and when the destination has been renamed every source row not
\* before the start bound has its fingerprint in the destination and every
\* planned key is in the checkpoint file.
C2_SupersetAfterRun ==
    (run = 1 /\ clean /\ appended = 0) =>
        /\ pc \notin {"panicked", "failed"}
        /\ pc = "done" =>
              /\ DestinationIsSuperset
              /\ planned \subseteq checkpointFile

\* C6: when the planner emits no key in a cycle, no chunk is produced, no
\* worker is launched and the orchestrator goes on to the next step of the
\* pipeline: it never aborts on an empty plan.
C6_EmptyPlanContinues ==
    pc # "panicked"

\* C10: once an insert into the destination has failed after the source
\* rename, in the instant reconciliation or in the partitioned back-fill,
\* the run goes no further: it does not reach the destination rename and
\* the destination is never renamed to the source name.
C10_BackfillFailureFatal ==
    cut_insert_failed => (dstName = "dst" /\ pc \notin {"rename_dst", "done"})

\* the keys min + i*1h below max
HourlyKeys(min, max) == {k \in min..(max - 1) : (k - min) % Hour = 0}

\* the instants of the window of key k, as the worker's queries bound it
Window(k) ==
    {t \in 0..(MaxTime + 3 * Hour) : InWindow(k, [a |-> 1, t |-> t])}

IsAscending(s) == \A i, j \in 1..Len(s) : i < j => s[i] < s[j]

\* C4: the planner returns exactly the ascending sequence of the keys
\* min + i*1h that are strictly less than max, the keys of the checkpoint set
\* removed and no other key removed or added.
C4_PlannerOutput ==
    plan.at = "out" =>
        /\ Range(plan.segments) = HourlyKeys(plan.min, plan.max) \ plan.done
        /\ IsAscending(plan.segments)

\* C4 witness: the checkpoint set holds the first key of a range of two
\* windows and the planner emits only the second.
C4_Witness ==
    /\ plan.at = "out"
    /\ plan.min = 0
    /\ plan.max = 2 * Hour
    /\ plan.done = {0}
    /\ plan.segments = <<Hour>>

\* the keys of the range the planner skipped because they are checkpointed
SkippedKeys == HourlyKeys(plan.min, plan.max) \cap plan.done

\* C5: within one cycle the windows [k, k+1h) of the keys the planner emits
\* and of the keys it skips as checkpointed are pairwise disjoint and their
\* union contains every instant of [min, max).
C5_WindowPartition ==
    plan.at = "out" =>
        LET keys == Range(plan.segments) \cup SkippedKeys
        IN  /\ \A k1, k2 \in keys : k1 # k2 => Window(k1) \cap Window(k2) = {}
            /\ \A t \in plan.min..(plan.max - 1) : \E k \in keys : t \in Window(k)

\* C5 witness: a range of more than one window, from a mid-hour min, with an
\* emitted key and a skipped key.
C5_Witness ==
    /\ plan.at = "out"
    /\ plan.min = 1
    /\ plan.max - plan.min > Hour
    /\ Range(plan.segments) # {}
    /\ SkippedKeys # {}

\* the key the worker completed last
LastKey(w) == w.segments[w.i - 1]

Completed(w) == w.at = "src_read" /\ w.last = "done"

\* C7: a segment worker attempts every key of its chunk exactly once, in
\* ascending time order; a failed source read, destination read or insert
\* for a key never keeps it from attempting the keys that follow; it issues
\* the source read of the next key only when every request for the current
\* key has returned.
C7_NoAbortWithinChunk ==
    \A c \in 1..Len(workers) :
        LET w == workers[c]
            n == Len(w.attempted)
        IN  /\ IsAscending(w.segments)
            /\ n <= Len(w.segments)
            /\ w.attempted = SubSeq(w.segments, 1, n)
            /\ WorkerFinished(w) => w.attempted = w.segments
            /\ w.at \in {"dst_read", "insert"} => n = w.i
            /\ w.at = "src_read" => n = w.i - 1
            /\ Completed(w) =>
                  Len(w.sent) = Len(Chunks(w.need_insert, WorkerBatch))

\* C7 witness: the only worker of the base cycle has read the source for the
\* second key of its chunk after a request for the first key failed.
C7_Witness ==
    /\ pc = "base_join"
    /\ Len(workers) = 1
    /\ ~clean
    /\ Len(workers[1].segments) = 2
    /\ workers[1].i = 2
    /\ workers[1].at = "dst_read"
    /\ workers[1].attempted = workers[1].segments

\* the rows of s whose fingerprint is not that of a row of the set d
Diff(s, fps) == SelectSeq(s, LAMBDA r : Fingerprint(r) \notin fps)

IsPrefix(s, t) == Len(s) <= Len(t) /\ s = SubSeq(t, 1, Len(s))

MinInt(x, y) == IF x <= y THEN x ELSE y

\* the batches sent are the consecutive slices of at most size rows of diff
BatchesOf(sent, diff, size) ==
    /\ IsPrefix(Flatten(sent), diff)
    /\ \A j \in 1..Len(sent) :
          /\ Len(sent[j]) >= 1
          /\ Len(sent[j]) = MinInt(size, Len(diff) - (j - 1) * size)

\* C8: the rows sent to the destination for a key (segment worker) or for
\* the instant bak_max_time (reconciliation) are exactly the source rows
\* read for it whose fingerprint is not among the fingerprints of the
\* destination rows read for it, each once per occurrence, verbatim and in
\* source order, in consecutive batches of at most 5000 (worker) or 1000
\* (reconciliation) rows; no row whose fingerprint is in the destination
\* read is sent.
C8_DiffExactness ==
    /\ \A c \in 1..Len(workers) :
          LET w == workers[c]
              diff == Diff(w.src_rows, w.dst_row_set)
          IN  /\ (w.at = "insert" \/ Completed(w)) =>
                    /\ BatchesOf(w.sent, diff, WorkerBatch)
                    /\ \A r \in Range(Flatten(w.sent)) :
                          Fingerprint(r) \notin w.dst_row_set
              /\ Completed(w) =>
                    /\ Flatten(w.sent) = diff
                    /\ \A r \in Range(w.src_rows) : InWindow(LastKey(w), r)
    /\ LET diff == Diff(bak_rows, cut_dst_row_set)
       IN  /\ BatchesOf(cutSent, diff, CutoverBatch)
           /\ \A r \in Range(Flatten(cutSent)) :
                 /\ Fingerprint(r) \notin cut_dst_row_set
                 /\ InInstant(bak_max_time, r)
           /\ pc \in {"bak_range", "bak_join", "rename_dst", "done"} =>
                 Flatten(cutSent) = diff

\* C8 witness: the reconciliation has sent a row of the instant, and a
\* back-fill worker has completed a key for which it read two source rows,
\* one already in the destination, and sent the other.
C8_Witness ==
    /\ pc = "bak_join"
    /\ cutSent # <<>>
    /\ \E c \in 1..Len(workers) :
          /\ Completed(workers[c])
          /\ Len(workers[c].src_rows) = 2
          /\ Len(Flatten(workers[c].sent)) = 1

\* C9: when both reads of a key succeed and the insert list is empty the
\* worker sends no insert and appends the key to the checkpoint file; no
\* insert with an empty payload is ever sent; when the insert list is not
\* empty and every batch succeeds the key is appended to the checkpoint file,
\* and not before its last batch has returned.
C9_CheckpointOnCleanCompletion ==
    /\ \A c \in 1..Len(workers) :
          LET w == workers[c]
          IN  /\ (Completed(w) /\ w.need_insert = <<>>) =>
                    (w.sent = <<>> /\ LastKey(w) \in checkpointFile)
              /\ (Completed(w) /\ w.need_insert # <<>> /\ ~w.batch_failed) =>
                    /\ LastKey(w) \in checkpointFile
                    /\ Len(w.sent) = Len(Chunks(w.need_insert, WorkerBatch))
              /\ (~WorkerFinished(w) /\ w.at \in {"dst_read", "insert"}) =>
                    Seg(w) \notin checkpointFile
              /\ \A j \in 1..Len(w.sent) : w.sent[j] # <<>>
    /\ \A j \in 1..Len(cutSent) : cutSent[j] # <<>>

\* C9 witness: a worker has completed a key whose source rows are all in the
\* destination: nothing sent, the key in the checkpoint file.
C9_Witness ==
    \E c \in 1..Len(workers) :
        /\ Completed(workers[c])
        /\ workers[c].src_rows # <<>>
        /\ workers[c].need_insert = <<>>
        /\ workers[c].sent = <<>>
        /\ LastKey(workers[c]) \in checkpointFile

\* where a run is once its base copy (plan and segment workers) has ended
CopyEnded == {"catchup_range", "rename_src", "panicked", "done_nodata"}

\* C3: with an unchanged source and no failed HTTP call, a second copy (plan
\* and segment workers over the same range) after a first one leaves the
\* destination rows as the first left them and sends no insert, the
\* checkpoint file kept or removed between the two.
C3_Idempotence ==
    (run >= 2 /\ failures = 0 /\ appended = 0 /\ restart_pc \in CopyEnded
        /\ srcName = "src") =>
        /\ dst = dst_at_restart
        /\ \A c \in 1..Len(workers) :
              workers[c].at # "insert" /\ workers[c].sent = <<>>

\* C3 witness: the first copy inserted rows, the checkpoint file was removed,
\* and the second copy has processed its keys again and ended with the
\* destination unchanged.
C3_Witness ==
    /\ run = 2
    /\ failures = 0
    /\ appended = 0
    /\ restart_pc = "catchup_range"
    /\ pc = "catchup_range"
    /\ planned # {}
    /\ BagCardinality(dst) > MaxDstRows
    /\ dst = dst_at_restart

\* no step of the program can be taken
Halted == ~ENABLED Steps

\* C11: when the rename of the source to _bak fails the run ends with an
\* error and none of the later cut-over steps is performed; when the rename
\* of the destination fails the run ends with an error and the checkpoint
\* file is not rotated; the checkpoint file is rotated only after both
\* renames have succeeded.
C11_RenameFailuresFatal ==
    /\ failed_at = "rename_src" =>
          /\ pc = "failed" /\ Halted
          /\ srcName = "src" /\ dstName = "dst" /\ ~rotated
          /\ cutLog = <<>>
          /\ bak_max_time = NoTime /\ bak_rows = NoRows /\ cutSent = <<>>
          /\ workers = <<>>
    /\ failed_at = "rename_dst" =>
          /\ pc = "failed" /\ Halted
          /\ srcName = "bak" /\ dstName = "dst" /\ ~rotated
          /\ "rotate" \notin Range(cutLog)
    /\ rotated => (srcName = "bak" /\ dstName = "src")

\* C11 witness: the destination rename failed with keys in the checkpoint
\* file: the source is under its _bak name and the file is not rotated.
C11_Witness ==
    /\ failed_at = "rename_dst"
    /\ pc = "failed"
    /\ srcName = "bak"
    /\ checkpointFile # {}
    /\ ~rotated

\* the steps of the cut-over in the order of the program text
CutoverOrder ==
    <<"rename_src", "bak_max", "bak_rows", "bak_dst_rows", "bak_insert",
      "bak_range", "backfill", "rename_dst", "rotate">>

Rank(step) == CHOOSE i \in 1..Len(CutoverOrder) : CutoverOrder[i] = step

\* the steps that a run may skip: no row to reconcile, nothing left in _bak,
\* no checkpoint file
OptionalSteps == {"bak_insert", "backfill", "rotate"}

\* the steps performed are in the order of CutoverOrder, none twice but the
\* reconciliation batches, and none before the required steps it follows
InCutoverOrder(log) ==
    /\ \A i, j \in 1..Len(log) :
          i < j => \/ Rank(log[i]) < Rank(log[j])
                   \/ (log[i] = "bak_insert" /\ log[j] = "bak_insert")
    /\ \A i \in 1..Len(log) : \A k \in 1..(Rank(log[i]) - 1) :
          CutoverOrder[k] \notin OptionalSteps =>
              CutoverOrder[k] \in Range(log)

\* the names under which a table exists
TableNames == {srcName, dstName}

NoneRunning == \A c \in 1..Len(workers) : workers[c].i > Len(workers[c].segments)

C12_State ==
    /\ InCutoverOrder(cutLog)
    /\ ("rename_src" \in Range(cutLog)) = (srcName = "bak")
    /\ ("bak_max" \in Range(cutLog)) = (bak_max_time # NoTime)
    /\ ("bak_insert" \in Range(cutLog)) => cutSent # <<>>
    /\ ("rename_dst" \in Range(cutLog)) = (dstName = "src")
    /\ ("rotate" \in Range(cutLog)) = rotated
    /\ pc \in {"rename_src", "rename_dst"} => workers = <<>>
    /\ \A c \in 1..Len(workers) :
          (workers[c].src_table = "bak") = ("backfill" \in Range(cutLog))
    /\ ("rename_src" \in Range(cutLog) /\ "rename_dst" \notin Range(cutLog))
          => "src" \notin TableNames

C12_Step ==
    /\ srcName' # srcName => (pc = "rename_src" /\ workers = <<>>)
    /\ dstName' # dstName => (pc = "rename_dst" /\ workers = <<>>)
    /\ (workers # <<>> /\ workers' = <<>>) => NoneRunning

\* C12: the cut-over steps occur in the order rename source, max(time) of
\* _bak, reconciliation of the instant, optional back-fill, rename
\* destination, rotation of the checkpoint file; no worker of the base or
\* catch-up cycles is running when the source is renamed and no back-fill
\* worker when the destination is renamed; between the two renames no table
\* exists under the source name.
C12_CutoverOrdering == []C12_State /\ [][C12_Step]_vars

\* C12 witness: a cut-over that reconciled a row, ran a back-fill and
\* rotated the checkpoint file has ended.
C12_Witness ==
    /\ pc = "done"
    /\ rotated
    /\ Range(cutLog) = Range(CutoverOrder)

\* the attempt got a 2xx response
Got2xx(o) == o.send = "ok" /\ IsSuccess(o.status)

\* the attempt ended in a non-2xx status or in a transport failure
EndedInFailure(o) ==
    o.send = "err" \/ o.body = "err" \/ ~IsSuccess(o.status)

\* C13: a transport operation issues at most three attempts; it returns
\* success as soon as an attempt gets a 2xx response and issues no attempt
\* after it; it returns a failure, carrying the error of the last attempt,
\* only after three attempts have each ended in a non-2xx status or a
\* transport failure.
C13_BoundedRetry ==
    call.at # "none" =>
        LET n == Len(call.attempts)
        IN  /\ n <= Attempts
            /\ \A i \in 1..(n - 1) : ~Got2xx(call.attempts[i])
            /\ (n >= 1 /\ Got2xx(call.attempts[n])) =>
                   (call.at = "returned" /\ call.result = "ok")
            /\ call.result = "ok" => Got2xx(call.attempts[n])
            /\ call.result = "err" =>
                   /\ n = Attempts
                   /\ \A i \in 1..n : EndedInFailure(call.attempts[i])
                   /\ call.err = call.last_err
                   /\ call.err[2] = n

\* the times of the source rows not before t
TimesFrom(t) == {src[i].t : i \in {j \in 1..Len(src) : src[j].t >= t}}

\* the source's maximum time has advanced beyond cur_max_time
Advanced == TimesFrom(cur_max_time) # {} /\ MaxOf(TimesFrom(cur_max_time)) > cur_max_time

\* the keys handed to the workers, chunk after chunk
LaunchedKeys(ws) == Flatten([c \in 1..Len(ws) |-> ws[c].segments])

C14_State ==
    /\ pc = "catchup_join" => new_max > cur_max_time
    /\ pc \in {"catchup_range", "catchup_join", "rename_src"} =>
          cur_max_time >= max_time

C14_Step ==
    /\ (pc = "catchup_range" /\ pc' \notin {"catchup_range", "failed"}) =>
          IF Advanced
          THEN /\ pc' = "catchup_join"
               /\ new_max' = MaxOf(TimesFrom(cur_max_time))
               /\ workers' # <<>>
               /\ Range(LaunchedKeys(workers')) =
                     HourlyKeys(MinOf(TimesFrom(cur_max_time)), new_max')
                        \ checkpointFile
               /\ cur_max_time' = cur_max_time
          ELSE /\ pc' = "rename_src"
               /\ workers' = <<>>
               /\ UNCHANGED <<cur_max_time, planned, dst, checkpointFile>>
    /\ (pc = "catchup_join" /\ pc' # pc) =>
          /\ NoneRunning
          /\ pc' = "catchup_range"
          /\ cur_max_time' = new_max
          /\ cur_max_time' > cur_max_time
    /\ (pc \in {"catchup_range", "catchup_join"} /\ pc' = pc) =>
          cur_max_time' = cur_max_time

\* C14: each iteration of the catch-up loop queries the source range from
\* cur_max_time; it leaves the loop without launching a worker when the
\* range is empty or its max is not beyond cur_max_time, otherwise it runs
\* one full cycle (checkpoint set, plan, launch, join) and sets cur_max_time
\* to the new max, so cur_max_time strictly increases with every cycle and
\* the loop ends as soon as the source's max stops advancing.
C14_CatchupLoop == []C14_State /\ [][C14_Step]_vars

\* C14 witness: the loop has run a cycle over rows written during the base
\* cycle and then left with the source's max no longer advancing.
C14_Witness ==
    /\ pc = "rename_src"
    /\ cur_max_time > max_time
    /\ ~Advanced

\* no step of main, pre-flight or later, can be taken
HaltedBeforeWork == ~ENABLED (NextPreflight \/ Steps)

\* nothing of the work of a run has been done
NoWorkDone ==
    /\ max_time = NoTime /\ cur_max_time = NoTime /\ new_max = NoTime
    /\ workers = <<>> /\ planned = {}
    /\ dst = EmptyBag /\ checkpointFile = {} /\ ~rotated
    /\ srcName = "src" /\ dstName = "dst"
    /\ cutLog = <<>> /\ cutSent = <<>> /\ bak_max_time = NoTime

\* the column list with the ignored names left out
Without(cols, ignored) == SelectSeq(cols, LAMBDA c : c \notin ignored)

SchemaDiffers ==
    Without(pre.src_table_cols, pre.ignore_field) #
    Without(pre.dst_table_cols, pre.ignore_field)

TimeFieldMissing ==
    pre.time_field \notin Range(Without(pre.src_table_cols, pre.ignore_field))

\* C15: when the schema check fails or the time field is not among the
\* filtered source columns, the run ends with an error before any time-range
\* query, row read, insert, checkpoint write or rename.
C15_PreflightFatal ==
    pre.at # "none" =>
        /\ pre.error \in {"columns_len", "columns_name", "time_field"} =>
              (pc = "failed" /\ HaltedBeforeWork /\ NoWorkDone)
        /\ pc \notin {"auth_test", "describe_src", "describe_dst", "failed"}
              => ~SchemaDiffers
        /\ pc = "base_range" => ~TimeFieldMissing
        /\ pc # "base_range" => NoWorkDone

\* C15 witness: the schema check passed and the time field is an ignored
\* column: the run has ended with the error of the time-field check.
C15_Witness ==
    /\ pre.at # "none"
    /\ pc = "failed"
    /\ pre.error = "time_field"
    /\ pre.time_field \in pre.ignore_field
    /\ pre.time_field \in Range(pre.src_table_cols)

\* C20: the schema check passes exactly when the source columns without the
\* ignored ones equal the destination columns without the ignored ones,
\* position by position; a reordering of the same names fails; the outcome
\* is the same with source and destination exchanged.
C20_SchemaCheck ==
    (pre.at # "none" /\ pre.compared # "none") =>
        /\ (pre.compared = "ok") = ~SchemaDiffers
        /\ (pre.compared = "ok") =
              (compare_table_columns_http(pre.dst_table_cols,
                                          pre.src_table_cols,
                                          pre.ignore_field) = "ok")
        /\ (pre.compared = "ok") = (pc # "failed" \/ failed_at = "col_names")

\* C20 witness: the two tables have the same two columns left in a different
\* order, an ignored column apart, and the check has failed.
C20_Witness ==
    /\ pre.at # "none"
    /\ pre.compared = "columns_name"
    /\ pre.ignore_field # {}
    /\ Len(pre.src_table_cols) # Len(pre.dst_table_cols)
    /\ Len(Without(pre.src_table_cols, pre.ignore_field)) = 2
    /\ Range(Without(pre.src_table_cols, pre.ignore_field)) =
       Range(Without(pre.dst_table_cols, pre.ignore_field))

C16_State ==
    pc = "done_nodata" =>
        /\ Halted
        /\ failed_at = "none"
        /\ workers = <<>> /\ planned = {} /\ max_time = NoTime
        /\ checkpointFile = {} /\ ~rotated
        /\ srcName = "src" /\ dstName = "dst" /\ cutLog = <<>>

C16_Step ==
    /\ (pc = "base_range" /\ pc' \notin {"base_range", "failed"}
           /\ TimesFrom(start_time) = {}) =>
          /\ pc' = "done_nodata"
          /\ workers' = <<>>
          /\ UNCHANGED <<src, dst, checkpointFile, rotated, srcName, dstName>>
    /\ (pc # "done_nodata" /\ pc' = "done_nodata") =>
          (pc = "base_range" /\ TimesFrom(start_time) = {})

\* C16: when the base time-range query returns an empty min or max the run
\* ends successfully with no worker launched, no insert issued, no
\* checkpoint file created or modified and no table renamed.
C16_EmptySource == []C16_State /\ [][C16_Step]_vars

\* C16 witness: the run over an empty source has ended with the no-data
\* return, the destination holding the row it held.
C16_Witness ==
    /\ pc = "done_nodata"
    /\ src = <<>>
    /\ dst # EmptyBag

\* C17: in a cycle one worker is launched per chunk, the number of running
\* workers never exceeds parallelism, and it is exactly parallelism whenever
\* the planner emits at least parallelism keys.
C17_ParallelismBound ==
    (plan.at = "out" /\ ~plan.panicked) =>
        /\ Len(workers) = Len(plan.chunks)
        /\ Len(workers) <= plan.p
        /\ Len(plan.segments) >= plan.p => Len(workers) = plan.p
        /\ Len(workers) < plan.p => Len(plan.segments) < plan.p

\* the least k with k * p >= n
Ceil(n, p) == CHOOSE k \in 0..n : k * p >= n /\ (k = 0 \/ (k - 1) * p < n)

\* C18: for a non-empty plan S and parallelism p >= 1 the chunks are
\* contiguous ascending slices of S of length ceil(|S|/p), the last possibly
\* shorter, whose concatenation is S: every planned key is handed to exactly
\* one worker and no two workers of a cycle have a key in common or keys
\* with overlapping windows.
C18_ShardingPartition ==
    (plan.at = "out" /\ plan.segments # <<>>) =>
        LET n == Len(plan.chunks)
            size == Ceil(Len(plan.segments), plan.p)
        IN  /\ n >= 1
            /\ Flatten(plan.chunks) = plan.segments
            /\ \A c \in 1..(n - 1) : Len(plan.chunks[c]) = size
            /\ 1 <= Len(plan.chunks[n]) /\ Len(plan.chunks[n]) <= size
            /\ Len(workers) = n
            /\ \A c \in 1..n :
                  /\ workers[c].segments = plan.chunks[c]
                  /\ IsAscending(workers[c].segments)
                  /\ workers[c].i = 1
            /\ \A c1, c2 \in 1..n : c1 # c2 =>
                  \A k1 \in Range(workers[c1].segments),
                     k2 \in Range(workers[c2].segments) :
                      k1 # k2 /\ Window(k1) \cap Window(k2) = {}

\* C18 witness: three keys are sharded for two workers, two keys for the
\* first and one for the second.
C18_Witness ==
    /\ plan.at = "out"
    /\ plan.p = 2
    /\ Len(plan.segments) = 3
    /\ Len(workers) = 2
    /\ Len(workers[1].segments) = 2
    /\ Len(workers[2].segments) = 1

\* the value of column c in a line, null when the line has no such key
ValueAt(line, c) ==
    IF \E i \in 1..Len(line) : line[i][1] = c
    THEN (CHOOSE pair \in Range(line) : pair[1] = c)[2]
    ELSE Null

\* the two lines agree on every column of the projection
SameProjection(l1, l2) ==
    \A c \in Range(sorted_col_names) : ValueAt(l1, c) = ValueAt(l2, c)

\* C19: two rows that agree on every column of the sorted projection, an
\* absent column counting as null, have the same fingerprint, whatever the
\* order of their keys and whatever columns they have outside the
\* projection; the diff takes such a source row as already present.
C19_FingerprintProjection ==
    (fp.at = "out" /\ SameProjection(fp.src_line, fp.dst_line)) =>
        /\ fp.dst_row_set = {fp.key}
        /\ fp.need_insert = <<>>

\* C19 witness: the source line has a null column and the time, the
\* destination line has the time after a column outside the projection and
\* no key for the null column; the diff is empty.
C19_Witness ==
    /\ fp.at = "out"
    /\ fp.src_line = <<<<"a", Null>>, <<"t", 1>>>>
    /\ fp.dst_line = <<<<"x", 2>>, <<"t", 1>>>>
    /\ fp.need_insert = <<>>

\* C21: once a step for a key fails in the segment worker (source read,
\* destination read or batch insert) the worker issues no further request
\* for that key; after a failed batch insert no later batch of the key is
\* sent to the destination.
C21_FailureSkipsKey ==
    \A c \in 1..Len(workers) :
        LET w == workers[c]
        IN  /\ w.last \in {"src_failed", "dst_failed"} =>
                  (w.at = "src_read" /\ w.sent = <<>>)
            /\ (~WorkerFinished(w) /\ w.at = "insert") => ~w.batch_failed

\* C22: the source table is renamed to _bak only when every partition key
\* planned in the base and catch-up cycles of the run is in the checkpoint
\* file: from the rename up to the launch of the back-fill pass no planned
\* key is missing from the file.
C22_CutoverAfterCompleteCopy ==
    (srcName = "bak"
        /\ pc \in {"bak_max", "bak_rows", "bak_dst_rows", "bak_insert",
                   "bak_range"}) =>
        planned \subseteq checkpointFile

\* the source rows that were written before the source was renamed and are
\* later than the cur_max_time the catch-up loop ended with
LateRows == {i \in 1..src_at_rename : src[i].t > cur_max_time}

\* C23: when no HTTP call fails, every row with a timestamp greater than the
\* last cur_max_time of the catch-up loop that was appended to the source
\* before the source rename has a row with the same fingerprint in the
\* destination at the moment the destination is renamed to the source name,
\* the rows strictly between cur_max_time and the maximum of _bak included.
C23_LateRowsNotLost ==
    (pc = "done" /\ clean /\ run = 1) =>
        \A i \in LateRows : InDestination(src[i])

\* the workers of the partitioned back-fill pass over _bak
BackfillWorkers == {c \in 1..Len(workers) : workers[c].src_table = "bak"}

\* C24: the lower bound of the range query on _bak that follows the instant
\* reconciliation is strictly greater than bak_max_time, so the back-fill
\* pass has no key at or before bak_max_time and reads and sends no row with
\* time = bak_max_time; and the pass reads every key of its chunks whatever
\* the checkpoint file holds.
C24_BackfillExcludesInstant ==
    /\ bak_max_time # NoTime => bak_min_time_str > bak_max_time
    /\ \A c \in BackfillWorkers :
          LET w == workers[c]
          IN  /\ \A k \in Range(w.segments) : k > bak_max_time
              /\ w.src_rows # NoRows =>
                    \A j \in 1..Len(w.src_rows) :
                        w.src_rows[j].t # bak_max_time
              /\ \A b \in 1..Len(w.sent) : \A j \in 1..Len(w.sent[b]) :
                    w.sent[b][j].t # bak_max_time
              /\ WorkerFinished(w) => w.attempted = w.segments

\* the previous run was terminated inside its base or a catch-up cycle
InCycle == {"base_join", "catchup_range", "catchup_join"}

\* C25: a run started after the previous one was terminated inside the base
\* or a catch-up cycle, over a source that is not written and with no failed
\* HTTP call of its own, never reads a key that is in the checkpoint file,
\* does not abort before the final destination rename, and when the
\* destination has been renamed every source row has a row with the same
\* fingerprint in the destination.
C25_ResumeAfterInterruption ==
    (run >= 2 /\ clean /\ appended = 0 /\ restart_pc \in InCycle) =>
        /\ \A c \in 1..Len(workers) :
              LET w == workers[c]
              IN  (~WorkerFinished(w) /\ w.at = "src_read") =>
                      Seg(w) \notin checkpointFile
        /\ pc \notin {"panicked", "failed"}
        /\ pc = "done" => DestinationIsSuperset

\* main is waiting on the workers of a cycle
Joins == {"base_join", "catchup_join", "bak_join"}

\* worker c of the cycle in progress has keys of its chunk left
Running(c) == c \in 1..Len(workers) /\ ~WorkerFinished(workers[c])

\* worker c of the cycle in progress has gone through its chunk
FinishedChunk(c) == c \in 1..Len(workers) /\ WorkerFinished(workers[c])

\* C26: under fair scheduling every launched segment worker finishes its
\* chunk whatever operations fail, every wait of main on the workers of a
\* cycle returns, and, the source being written a bounded number of times,
\* the run ends: completed, or stopped by an error.
C26_CycleTermination ==
    /\ \A c \in 1..MaxParallelism : Running(c) ~> FinishedChunk(c)
    /\ (pc \in Joins) ~> (pc \notin Joins)
    /\ <>(pc \in Terminal)

\* C26 witness: main waits on as many workers as the parallelism allows, a
\* read of the last key of one of them has failed, and every worker has gone
\* through its chunk
C26_Witness ==
    /\ pc \in Joins
    /\ Len(workers) = MaxParallelism
    /\ \E c \in 1..Len(workers) :
          workers[c].last \in {"src_failed", "dst_failed"}
    /\ AllJoined

====
